---- MODULE Spec2Model ----
(***************************************************************************)
(* Model of the CloudFormation Stack controller: the event-driven          *)
(* StackReconciler (controllers/stack_controller.go) and the polling       *)
(* StackFollower (stack follower: Receiver, Worker, updateStackStatus).    *)
(***************************************************************************)
EXTENDS Integers, Sequences, FiniteSets, TLC

----------------------------------------------------------------------------
(* Bounds of the model *)

\* highest remote stack identifier CreateStack hands out (0 is the empty string)
MaxStackId == 1
\* capacity of the handoff channel between Reconciler and Follower
MaxChannel == 1
\* longest output list of a remote stack
MaxOutputs == 1
\* number of merges run in a row by the merge specification
MaxMergeRuns == 2
\* highest value of the total-followed counter
MaxFollowed == 2

----------------------------------------------------------------------------
(* Constants of the program *)

controllerKey == "kubernetes.io/controlled-by"
controllerValue == "cloudformation.cuppett.com/operator"
legacyFinalizer == "finalizer.cloudformation.cuppett.com"
stacksFinalizer == "cloudformation.cuppett.com/finalizer"
ownerKey == "kubernetes.io/owned-by"
ErrMissingTemplateSpec == "template or templateUrl must be provided"
ErrStackNotFound == "stack not found"

\* the Stack resources (namespaced names) under reconciliation
Resources == {"ns/stack"}

\* the tag set createStack/updateStack send: ownership tags (no default or user tags)
stackTags(r) == {<<controllerKey, controllerValue>>, <<ownerKey, r>>}

\* lifecycle statuses of a remote stack
InProgressStatuses == {"CREATE_IN_PROGRESS", "UPDATE_IN_PROGRESS", "DELETE_IN_PROGRESS"}
TerminalStatuses == {"CREATE_COMPLETE", "UPDATE_COMPLETE", "DELETE_COMPLETE"}

\* CloudFormationHelper.StackInTerminalState: no further autonomous transition
StackInTerminalState(status) == status \in TerminalStatuses

----------------------------------------------------------------------------
(* Go values *)

\* a Go map[string]string: nil, or a set of <<key, value>> pairs with unique keys
NilMap == [isNil |-> TRUE, kv |-> {}]
MakeMap(pairs) == [isNil |-> FALSE, kv |-> pairs]
MapLen(m) == Cardinality(m.kv)
MapPut(m, k, v) == [isNil |-> FALSE, kv |-> {p \in m.kv : p[1] # k} \cup {<<k, v>>}]
\* reflect.DeepEqual on maps: a nil map and an empty non-nil map differ
DeepEqualMap(a, b) == a.isNil = b.isNil /\ a.kv = b.kv

\* the outputs map updateStackStatus builds from the remote output list
RECURSIVE BuildOutputs(_, _)
BuildOutputs(m, list) ==
    IF list = <<>> THEN m
    ELSE BuildOutputs(MapPut(m, Head(list).OutputKey, Head(list).OutputValue), Tail(list))

\* the status sub-record of a Stack resource before the first merge
EmptyStatus ==
    [StackStatus |-> "", StackID |-> 0, CreatedTime |-> 0, UpdatedTime |-> 0,
     Outputs |-> NilMap, RoleARN |-> "", Resources |-> <<>>]

----------------------------------------------------------------------------
(* StackFollower.updateStackStatus as a function of the instance status st,  *)
(* the fetched remote stack cfs, the result of GetStackResources (res, or    *)
(* the failure resErr) and the outcome of the Status().Update call.          *)

mergeLifecycle(st, cfs) ==
    IF cfs.StackStatus # st.StackStatus
    THEN [st EXCEPT !.StackStatus = cfs.StackStatus,
                    !.CreatedTime = cfs.CreationTime,
                    !.UpdatedTime = IF cfs.LastUpdatedTime # 0
                                    THEN cfs.LastUpdatedTime ELSE @]
    ELSE st

\* the identifier block clearing the identifier of a deleted stack
mergeIdOutputsClearsDeleted(st, cfs) ==
    LET outputs == BuildOutputs(MakeMap({}), cfs.Outputs) IN
    IF cfs.StackId # st.StackID \/ ~DeepEqualMap(outputs, st.Outputs)
    THEN [st EXCEPT !.StackID = IF cfs.StackStatus = "DELETE_COMPLETE"
                                 THEN 0 ELSE cfs.StackId,
                    !.Outputs = IF MapLen(outputs) > 0 THEN outputs ELSE @]
    ELSE st

mergeIdOutputs(st, cfs) ==
    LET outputs == BuildOutputs(MakeMap({}), cfs.Outputs) IN
    IF cfs.StackId # st.StackID \/ ~DeepEqualMap(outputs, st.Outputs)
    THEN [st EXCEPT !.StackID = cfs.StackId,
                    !.Outputs = IF MapLen(outputs) > 0 THEN outputs ELSE @]
    ELSE st

\* whether the lifecycle block or the identifier/outputs block set update = true
flagsLifecycleIdOutputs(st, cfs) ==
    \/ cfs.StackStatus # st.StackStatus
    \/ cfs.StackId # st.StackID
    \/ ~DeepEqualMap(BuildOutputs(MakeMap({}), cfs.Outputs), st.Outputs)

\* the role ARN is copied into the instance; the update flag is left alone
mergeRoleARN(st, cfs) == [st EXCEPT !.RoleARN = cfs.RoleARN]

\* what the merge's two outside calls can answer: GetStackResources fails
\* ("resources-error"), or Status().Update succeeds, reports the resource gone,
\* or fails otherwise
MergeOutcomes == {"ok", "notfound", "error", "resources-error"}

updateStackStatus(st, cfs, res, io) ==
    LET s1 == mergeLifecycle(st, cfs)
        s2 == mergeIdOutputs(s1, cfs)
        s3 == mergeRoleARN(s2, cfs)
        s4 == IF res # s3.Resources THEN [s3 EXCEPT !.Resources = res] ELSE s3
        update == flagsLifecycleIdOutputs(st, cfs) \/ res # s3.Resources
    IN  IF io = "resources-error"
        THEN [instance |-> s3, wrote |-> FALSE, stored |-> FALSE, err |-> TRUE]
        ELSE IF ~update
        THEN [instance |-> s4, wrote |-> FALSE, stored |-> FALSE, err |-> FALSE]
        ELSE [instance |-> s4, wrote |-> TRUE, stored |-> io = "ok",
              err |-> io = "error"]

----------------------------------------------------------------------------
(* The remote provisioning API (ProvisioningClient) *)

ErrNoUpdates == "No updates are to be performed."
ErrDoesNotExist == "does not exist"
ErrRemote == "remote error"
ErrPersist == "persistence error"

\* no remote stack under the resource's stack name
NoStack ==
    [StackId |-> 0, StackStatus |-> "NONE", CreationTime |-> 0, LastUpdatedTime |-> 0,
     Outputs |-> <<>>, Tags |-> {}, RoleARN |-> "", Resources |-> <<>>]

\* a stack of the same name made by somebody else: no ownership tag
ForeignStack(id) ==
    [StackId |-> id, StackStatus |-> "CREATE_COMPLETE", CreationTime |-> id,
     LastUpdatedTime |-> 0, Outputs |-> <<>>, Tags |-> {}, RoleARN |-> "",
     Resources |-> <<"res">>]

\* what one remote call of a pass can answer
Outcomes == {"ok", "error", "noupdates", "notexist", "lookup-error"}

\* CloudFormationHelper.GetStack: the stack of the resource, or not found
GetStack(cfs, out) ==
    IF out = "lookup-error" THEN [err |-> ErrRemote, stack |-> NoStack]
    ELSE IF cfs.StackStatus = "NONE" THEN [err |-> ErrStackNotFound, stack |-> NoStack]
    ELSE [err |-> "", stack |-> cfs]

\* CloudFormationHelper.GetStackResources
GetStackResources(cfs) == cfs.Resources

CreateStackAPI(cfs, r, id, out) ==
    IF out = "error" \/ cfs.StackStatus \notin {"NONE", "DELETE_COMPLETE"}
    THEN [err |-> ErrRemote, cfn |-> cfs]
    ELSE [err |-> "",
          cfn |-> [StackId |-> id, StackStatus |-> "CREATE_IN_PROGRESS",
                   CreationTime |-> id, LastUpdatedTime |-> 0, Outputs |-> <<>>,
                   Tags |-> stackTags(r), RoleARN |-> "", Resources |-> <<>>]]

\* "notexist": the stack was removed by somebody else after the pass looked it up
UpdateStackAPI(cfs, r, out) ==
    CASE out = "ok" ->
           [err |-> "",
            cfn |-> [cfs EXCEPT !.StackStatus = "UPDATE_IN_PROGRESS",
                                !.LastUpdatedTime = 1, !.Tags = stackTags(r)]]
      [] out = "noupdates" -> [err |-> ErrNoUpdates, cfn |-> cfs]
      [] out = "notexist" -> [err |-> ErrDoesNotExist, cfn |-> NoStack]
      [] OTHER -> [err |-> ErrRemote, cfn |-> cfs]

DeleteStackAPI(cfs, out) ==
    IF out = "error" THEN [err |-> ErrRemote, cfn |-> cfs]
    ELSE IF cfs.StackStatus \in {"NONE", "DELETE_COMPLETE"} THEN [err |-> "", cfn |-> cfs]
    ELSE [err |-> "", cfn |-> [cfs EXCEPT !.StackStatus = "DELETE_IN_PROGRESS"]]

----------------------------------------------------------------------------
(* StackReconciler: one pass computed from the fetched resource obj, the    *)
(* remote stack cfs, and what the outside calls of the pass answer.         *)

\* a Stack resource as created by the user
NewStack(fin, body, url) ==
    [exists |-> TRUE, deleting |-> FALSE, finalizers |-> fin,
     Template |-> body, TemplateUrl |-> url, Status |-> EmptyStatus]

\* the resource once the API server has removed it
GoneStack ==
    [exists |-> FALSE, deleting |-> FALSE, finalizers |-> {},
     Template |-> FALSE, TemplateUrl |-> FALSE, Status |-> EmptyStatus]

\* the API server removes a deletion-marked resource when its finalizers are gone
Settle(obj) == IF obj.deleting /\ obj.finalizers = {} THEN GoneStack ELSE obj

\* the outcome of a pass that did nothing
Result(obj, cfs) ==
    [object |-> obj, cfn |-> cfs, calls |-> {}, handoff |-> FALSE,
     msgId |-> obj.Status.StackID, statusWrite |-> FALSE, objWrite |-> FALSE,
     template |-> "", err |-> "", logic |-> "", lookup |-> "",
     apiErr |-> "", refresh |-> FALSE]

\* what a pass saw when it looked the remote stack up
Seen(g) ==
    IF g.err = "" THEN "found"
    ELSE IF g.err = ErrStackNotFound THEN "notfound" ELSE "error"

getStack(cfs, out) == GetStack(cfs, out)

stackExists(g) ==
    IF g.err = ErrStackNotFound THEN [exists |-> FALSE, err |-> ""]
    ELSE IF g.err # "" THEN [exists |-> FALSE, err |-> g.err]
    ELSE IF g.stack.StackStatus = "DELETE_COMPLETE" THEN [exists |-> FALSE, err |-> ""]
    ELSE [exists |-> TRUE, err |-> ""]

\* hasOwnership without the tag comparison: any stack found counts as owned
hasOwnershipNoTagCheck(g) ==
    LET e == stackExists(g) IN
    IF e.err # "" THEN [owned |-> FALSE, err |-> e.err]
    ELSE [owned |-> TRUE, err |-> ""]

hasOwnership(g) ==
    LET e == stackExists(g) IN
    IF e.err # "" THEN [owned |-> FALSE, err |-> e.err]
    ELSE IF ~e.exists THEN [owned |-> TRUE, err |-> ""]
    ELSE [owned |-> <<controllerKey, controllerValue>> \in g.stack.Tags, err |-> ""]

\* the template check demanding exactly one of the two fields
missingTemplateSpecUnlessOne(obj) == obj.Template = obj.TemplateUrl

\* the template check of createStack and updateStack
missingTemplateSpec(obj) == ~obj.Template /\ ~obj.TemplateUrl

\* which template field the input carries
templateInput(obj) == IF obj.Template THEN "TemplateBody" ELSE "TemplateURL"

createStack(obj, cfs, dry, r, id, out) ==
    IF dry THEN [Result(obj, cfs) EXCEPT !.logic = "create"]
    ELSE IF missingTemplateSpec(obj)
    THEN [Result(obj, cfs) EXCEPT !.logic = "create", !.err = ErrMissingTemplateSpec]
    ELSE LET api == CreateStackAPI(cfs, r, id, out) IN
         IF api.err # ""
         THEN [Result(obj, cfs) EXCEPT !.logic = "create",
                                       !.calls = {"CreateStack"},
                                       !.template = templateInput(obj),
                                       !.apiErr = api.err,
                                       !.err = api.err]
         ELSE [Result(obj, api.cfn) EXCEPT !.logic = "create",
                                           !.calls = {"CreateStack"},
                                           !.template = templateInput(obj),
                                           !.handoff = TRUE,
                                           !.msgId = api.cfn.StackId]

\* StackFollower.UpdateStackStatus: the merge against a fresh fetch of the stack
UpdateStackStatus(obj, cfs, io) ==
    LET m == updateStackStatus(obj.Status, cfs, GetStackResources(cfs), io) IN
    [Result(IF m.stored THEN [obj EXCEPT !.Status = m.instance] ELSE obj, cfs)
       EXCEPT !.statusWrite = m.wrote, !.refresh = TRUE,
              !.err = IF m.err THEN ErrPersist ELSE ""]

\* update logic that hands off when there is nothing to update
updateStackFollowsNoUpdates(obj, cfs, dry, r, id, out, io) ==
    IF dry THEN [Result(obj, cfs) EXCEPT !.logic = "update"]
    ELSE IF missingTemplateSpec(obj)
    THEN [Result(obj, cfs) EXCEPT !.logic = "update", !.err = ErrMissingTemplateSpec]
    ELSE LET api == UpdateStackAPI(cfs, r, out) IN
         IF api.err = ""
         THEN [Result(obj, api.cfn) EXCEPT !.logic = "update",
                                           !.calls = {"UpdateStack"},
                                           !.template = templateInput(obj),
                                           !.handoff = TRUE]
         ELSE IF api.err = ErrNoUpdates
         THEN [Result(obj, cfs) EXCEPT !.logic = "update",
                                       !.calls = {"UpdateStack"},
                                       !.apiErr = api.err,
                                       !.template = templateInput(obj),
                                       !.handoff = TRUE]
         ELSE IF api.err = ErrDoesNotExist
         THEN LET c == createStack(obj, api.cfn, dry, r, id, out) IN
              [c EXCEPT !.logic = "update", !.calls = @ \cup {"UpdateStack"}]
         ELSE [Result(obj, cfs) EXCEPT !.logic = "update",
                                       !.calls = {"UpdateStack"},
                                       !.template = templateInput(obj),
                                       !.apiErr = api.err,
                                       !.err = api.err]

updateStack(obj, cfs, dry, r, id, out, io) ==
    IF dry THEN [Result(obj, cfs) EXCEPT !.logic = "update"]
    ELSE IF missingTemplateSpec(obj)
    THEN [Result(obj, cfs) EXCEPT !.logic = "update", !.err = ErrMissingTemplateSpec]
    ELSE LET api == UpdateStackAPI(cfs, r, out) IN
         IF api.err = ""
         THEN [Result(obj, api.cfn) EXCEPT !.logic = "update",
                                           !.calls = {"UpdateStack"},
                                           !.template = templateInput(obj),
                                           !.handoff = TRUE]
         ELSE IF api.err = ErrNoUpdates
         THEN [UpdateStackStatus(obj, cfs, io) EXCEPT !.logic = "update",
                                                      !.calls = {"UpdateStack"},
                                                      !.apiErr = api.err,
                                                      !.template = templateInput(obj)]
         ELSE IF api.err = ErrDoesNotExist
         THEN LET c == createStack(obj, api.cfn, dry, r, id, out) IN
              [c EXCEPT !.logic = "update", !.calls = @ \cup {"UpdateStack"}]
         ELSE [Result(obj, cfs) EXCEPT !.logic = "update",
                                       !.calls = {"UpdateStack"},
                                       !.template = templateInput(obj),
                                       !.apiErr = api.err,
                                       !.err = api.err]

\* delete logic without the dry-run test
deleteStackIgnoresDryRun(obj, cfs, dry, out) ==
    LET g == getStack(cfs, out)
        own == hasOwnership(g)
        base == [Result(obj, cfs) EXCEPT !.logic = "delete", !.lookup = Seen(g)]
    IN  IF own.err # "" THEN [base EXCEPT !.err = own.err]
        ELSE IF ~own.owned THEN base
        ELSE LET api == DeleteStackAPI(cfs, out) IN
             IF api.err # ""
             THEN [base EXCEPT !.calls = {"DeleteStack"}, !.apiErr = api.err,
                               !.err = api.err]
             ELSE [base EXCEPT !.cfn = api.cfn, !.calls = {"DeleteStack"},
                               !.handoff = TRUE]

deleteStack(obj, cfs, dry, out) ==
    IF dry THEN [Result(obj, cfs) EXCEPT !.logic = "delete"]
    ELSE LET g == getStack(cfs, out)
             own == hasOwnership(g)
             base == [Result(obj, cfs) EXCEPT !.logic = "delete", !.lookup = Seen(g)]
         IN
         IF own.err # "" THEN [base EXCEPT !.err = own.err]
         ELSE IF ~own.owned THEN base
         ELSE LET api == DeleteStackAPI(cfs, out) IN
              IF api.err # ""
              THEN [base EXCEPT !.calls = {"DeleteStack"}, !.apiErr = api.err,
                                !.err = api.err]
              ELSE [base EXCEPT !.cfn = api.cfn, !.calls = {"DeleteStack"},
                                !.handoff = TRUE]

\* r.Update of the resource with the finalizers fin
updateFinalizers(obj, cfs, fin, io) ==
    IF io = "error"
    THEN [Result(obj, cfs) EXCEPT !.logic = "finalizer", !.objWrite = TRUE,
                                  !.err = ErrPersist]
    ELSE [Result([obj EXCEPT !.finalizers = fin], cfs)
            EXCEPT !.logic = "finalizer", !.objWrite = TRUE]

\* the deletion branch of Reconcile
finalize(obj, cfs, dry, out, io) ==
    IF obj.finalizers \cap {stacksFinalizer, legacyFinalizer} # {}
    THEN IF obj.Status.StackStatus = "DELETE_COMPLETE" \/ obj.Status.StackStatus = ""
         THEN updateFinalizers(obj, cfs,
                               obj.finalizers \ {stacksFinalizer, legacyFinalizer}, io)
         ELSE deleteStack(obj, cfs, dry, out)
    ELSE Result(obj, cfs)

\* the decision that takes every stack found for the controller's own
convergeNoOwnership(obj, cfs, dry, r, id, out, io) ==
    LET g == getStack(cfs, out)
        e == stackExists(g)
    IN  IF e.err # "" THEN [Result(obj, cfs) EXCEPT !.lookup = Seen(g), !.err = e.err]
        ELSE IF e.exists
        THEN IF ~StackInTerminalState(g.stack.StackStatus)
             THEN [Result(obj, cfs) EXCEPT !.lookup = Seen(g), !.logic = "follow",
                                           !.handoff = TRUE]
             ELSE [updateStack(obj, cfs, dry, r, id, out, io) EXCEPT !.lookup = Seen(g)]
        ELSE [createStack(obj, cfs, dry, r, id, out) EXCEPT !.lookup = Seen(g)]

\* the decision without the test for a stack still in progress
convergeNoFollow(obj, cfs, dry, r, id, out, io) ==
    LET g == getStack(cfs, out)
        e == stackExists(g)
    IN  IF e.err # "" THEN [Result(obj, cfs) EXCEPT !.lookup = Seen(g), !.err = e.err]
        ELSE IF e.exists /\ hasOwnership(g).owned
        THEN [updateStack(obj, cfs, dry, r, id, out, io) EXCEPT !.lookup = Seen(g)]
        ELSE [createStack(obj, cfs, dry, r, id, out) EXCEPT !.lookup = Seen(g)]

\* the create/update/follow decision of Reconcile
converge(obj, cfs, dry, r, id, out, io) ==
    LET g == getStack(cfs, out)
        e == stackExists(g)
    IN  IF e.err # "" THEN [Result(obj, cfs) EXCEPT !.lookup = Seen(g), !.err = e.err]
        ELSE IF e.exists /\ hasOwnership(g).owned
        THEN IF ~StackInTerminalState(g.stack.StackStatus)
             THEN [Result(obj, cfs) EXCEPT !.lookup = Seen(g), !.logic = "follow",
                                           !.handoff = TRUE]
             ELSE [updateStack(obj, cfs, dry, r, id, out, io) EXCEPT !.lookup = Seen(g)]
        ELSE [createStack(obj, cfs, dry, r, id, out) EXCEPT !.lookup = Seen(g)]

\* the pass that adds the finalizer and goes on in the same invocation
ReconcilePassNoDefer(obj, cfs, dry, r, id, out, io) ==
    IF obj.deleting THEN finalize(obj, cfs, dry, out, io)
    ELSE IF stacksFinalizer \notin obj.finalizers
    THEN LET u == updateFinalizers(obj, cfs, obj.finalizers \cup {stacksFinalizer}, io) IN
         IF u.err # "" THEN u
         ELSE [converge(u.object, cfs, dry, r, id, out, io) EXCEPT !.objWrite = TRUE]
    ELSE converge(obj, cfs, dry, r, id, out, io)

ReconcilePass(obj, cfs, dry, r, id, out, io) ==
    IF obj.deleting THEN finalize(obj, cfs, dry, out, io)
    ELSE IF stacksFinalizer \notin obj.finalizers
    THEN updateFinalizers(obj, cfs, obj.finalizers \cup {stacksFinalizer}, io)
    ELSE converge(obj, cfs, dry, r, id, out, io)

----------------------------------------------------------------------------
(* State *)

VARIABLES
    DryRun,           \* StackReconciler.DryRun
    stack,            \* the Stack resources held by the API server
    cfn,              \* the remote stack under each resource's stack name
    nextId,           \* the identifier the next CreateStack returns
    FollowChannel,    \* resources handed to the follower, not yet received
    mapPollingList,   \* StackFollower registry: StackID -> resource
    StacksFollowing,  \* gauge
    StacksFollowed,   \* counter
    rpc, rmsg,        \* Receiver: position, and the resource it holds
    wpc, wtodo, wkey, wstack, wcfs,  \* Worker: position, entries left in this
                      \* tick, and the entry, resource and stack being processed
    wlast,            \* what the Worker's last step did
    admits,           \* per StackID: stores since it was last unregistered
    pass,             \* what the last step did, when it was a Reconcile pass
                      \* (or the Receiver ignoring a handoff)
    mInst, mCfs, mPre, mWrote, mIo, mRuns  \* the merge run on its own

followerVars == <<mapPollingList, StacksFollowing, StacksFollowed, rpc, rmsg,
                  wpc, wtodo, wkey, wstack, wcfs, wlast, admits>>
mergeVars == <<mInst, mCfs, mPre, mWrote, mIo, mRuns>>
vars == <<DryRun, stack, cfn, nextId, FollowChannel, followerVars, pass, mergeVars>>

StackIds == 0..MaxStackId

NoMsg == [StackID |-> 0, res |-> ""]
NoPass ==
    [kind |-> "none", res |-> "", deleting |-> FALSE, finalizers |-> {},
     storedStatus |-> "", Template |-> FALSE, TemplateUrl |-> FALSE,
     remoteStatus |-> "NONE", remoteOwned |-> FALSE, dry |-> FALSE,
     calls |-> {}, handoff |-> FALSE, statusWrite |-> FALSE, objWrite |-> FALSE,
     template |-> "", err |-> "", logic |-> "", lookup |-> "",
     apiErr |-> "", refresh |-> FALSE,
     remoteChanged |-> FALSE, finalized |-> FALSE]
NoWork == [kind |-> "none", key |-> 0, terminal |-> FALSE, err |-> FALSE, wrote |-> FALSE]

Owned(cfs) == <<controllerKey, controllerValue>> \in cfs.Tags

\* the outputs of the template: none as created, one once updated
StackOutputs(status) ==
    IF status = "CREATE_IN_PROGRESS" THEN <<>>
    ELSE <<[OutputKey |-> "k", OutputValue |-> "a"]>>

\* the resources the user declares and what is under their stack names before:
\* each template combination, and a stack name already taken by a foreign stack
\* (met by a resource that carries the legacy finalizer of an earlier release,
\* and by one that sets both template fields); and a resource whose stack an
\* earlier run of the controller created and followed to the end
Scenarios ==
    {[fin |-> {}, body |-> TRUE, url |-> FALSE, remote |-> "none"],
     [fin |-> {}, body |-> FALSE, url |-> TRUE, remote |-> "none"],
     [fin |-> {}, body |-> FALSE, url |-> FALSE, remote |-> "none"],
     [fin |-> {}, body |-> TRUE, url |-> TRUE, remote |-> "foreign"],
     [fin |-> {legacyFinalizer}, body |-> TRUE, url |-> FALSE, remote |-> "foreign"],
     [fin |-> {stacksFinalizer}, body |-> TRUE, url |-> FALSE, remote |-> "adopted"]}

\* the stack of r that an earlier run created, now complete
AdoptedStack(r, id) ==
    [StackId |-> id, StackStatus |-> "CREATE_COMPLETE", CreationTime |-> id,
     LastUpdatedTime |-> 0, Outputs |-> StackOutputs("CREATE_IN_PROGRESS"),
     Tags |-> stackTags(r), RoleARN |-> "", Resources |-> <<"res">>]

\* the status the follower stored for it
AdoptedStatus(r, id) ==
    updateStackStatus(EmptyStatus, AdoptedStack(r, id),
                      GetStackResources(AdoptedStack(r, id)), "ok").instance

MergeIdle ==
    /\ mInst = EmptyStatus /\ mCfs = NoStack /\ mPre = EmptyStatus
    /\ mWrote = 0 /\ mIo = "ok" /\ mRuns = 0

Init ==
    /\ DryRun \in BOOLEAN
    /\ \E sc \in Scenarios :
          /\ stack = [r \in Resources |->
                        IF sc.remote = "adopted"
                        THEN [NewStack(sc.fin, sc.body, sc.url)
                                EXCEPT !.Status = AdoptedStatus(r, 1)]
                        ELSE NewStack(sc.fin, sc.body, sc.url)]
          /\ cfn = [r \in Resources |->
                      CASE sc.remote = "foreign" -> ForeignStack(1)
                        [] sc.remote = "adopted" -> AdoptedStack(r, 1)
                        [] OTHER -> NoStack]
          /\ nextId = IF sc.remote = "none" THEN 1 ELSE 2
    /\ FollowChannel = <<>>
    /\ mapPollingList = <<>>
    /\ StacksFollowing = 0 /\ StacksFollowed = 0
    /\ rpc = "recv" /\ rmsg = NoMsg
    /\ wpc = "sleep" /\ wtodo = {} /\ wkey = 0 /\ wstack = GoneStack /\ wcfs = NoStack
    /\ wlast = NoWork
    /\ admits = [k \in StackIds |-> 0]
    /\ pass = NoPass
    /\ MergeIdle

----------------------------------------------------------------------------
(* StackReconciler.Reconcile *)

PassOf(r, obj, cfs, dry, res) ==
    [kind |-> "reconcile", res |-> r, deleting |-> obj.deleting,
     finalizers |-> obj.finalizers, storedStatus |-> obj.Status.StackStatus,
     Template |-> obj.Template, TemplateUrl |-> obj.TemplateUrl,
     remoteStatus |-> cfs.StackStatus, remoteOwned |-> Owned(cfs), dry |-> dry,
     calls |-> res.calls, handoff |-> res.handoff, statusWrite |-> res.statusWrite,
     objWrite |-> res.objWrite, template |-> res.template, err |-> res.err,
     logic |-> res.logic, lookup |-> res.lookup,
     apiErr |-> res.apiErr, refresh |-> res.refresh,
     remoteChanged |-> res.cfn # cfs,
     finalized |-> obj.finalizers # {} /\ res.object.finalizers = {}]

\* one pass, the outside calls answering from outs and the writes from ios
ReconcileWith(r, outs, ios) ==
    /\ stack[r].exists
    /\ \E out \in outs, io \in ios :
         LET res == ReconcilePass(stack[r], cfn[r], DryRun, r, nextId, out, io) IN
         /\ res.handoff => Len(FollowChannel) < MaxChannel
         /\ res.cfn.StackId = nextId => nextId <= MaxStackId
         /\ stack' = [stack EXCEPT ![r] = Settle(res.object)]
         /\ cfn' = [cfn EXCEPT ![r] = res.cfn]
         /\ nextId' = IF res.cfn.StackId = nextId THEN nextId + 1 ELSE nextId
         /\ FollowChannel' =
              IF res.handoff
              THEN Append(FollowChannel, [StackID |-> res.msgId, res |-> r])
              ELSE FollowChannel
         /\ pass' = PassOf(r, stack[r], cfn[r], DryRun, res)
    /\ UNCHANGED <<DryRun, followerVars, mergeVars>>

Reconcile(r) == ReconcileWith(r, Outcomes, {"ok", "error"})

\* the resource is gone: nothing to do
ReconcileNotFound(r) ==
    /\ ~stack[r].exists
    /\ pass' = [NoPass EXCEPT !.kind = "reconcile", !.res = r]
    /\ UNCHANGED <<DryRun, stack, cfn, nextId, FollowChannel, followerVars, mergeVars>>

----------------------------------------------------------------------------
(* The user and the remote service *)

UserDelete(r) ==
    /\ stack[r].exists /\ ~stack[r].deleting
    /\ stack' = [stack EXCEPT ![r] = Settle([@ EXCEPT !.deleting = TRUE])]
    /\ pass' = NoPass
    /\ UNCHANGED <<DryRun, cfn, nextId, FollowChannel, followerVars, mergeVars>>

RemoteProgress(r) ==
    /\ cfn[r].StackStatus \in InProgressStatuses
    /\ \/ /\ cfn[r].StackStatus = "DELETE_IN_PROGRESS"
          /\ cfn' = [cfn EXCEPT ![r] = [@ EXCEPT !.StackStatus = "DELETE_COMPLETE",
                                                  !.Outputs = <<>>,
                                                  !.Resources = <<>>]]
       \/ /\ cfn[r].StackStatus # "DELETE_IN_PROGRESS"
          /\ cfn' = [cfn EXCEPT ![r] =
                       [@ EXCEPT !.StackStatus =
                                    IF @ = "CREATE_IN_PROGRESS"
                                    THEN "CREATE_COMPLETE" ELSE "UPDATE_COMPLETE",
                                 !.Outputs = StackOutputs(cfn[r].StackStatus),
                                 !.Resources = <<"res">>]]
    /\ pass' = NoPass
    /\ UNCHANGED <<DryRun, stack, nextId, FollowChannel, followerVars, mergeVars>>

\* the service forgets a deleted stack: lookups now report it not found
RemoteVanish(r) ==
    /\ cfn[r].StackStatus = "DELETE_COMPLETE"
    /\ cfn' = [cfn EXCEPT ![r] = NoStack]
    /\ pass' = NoPass
    /\ UNCHANGED <<DryRun, stack, nextId, FollowChannel, followerVars, mergeVars>>

\* somebody else removes the tags of the finished stack
ExternalUntag(r) ==
    /\ cfn[r].StackStatus \in {"CREATE_COMPLETE", "UPDATE_COMPLETE"} /\ Owned(cfn[r])
    /\ cfn' = [cfn EXCEPT ![r] = [@ EXCEPT !.Tags = {}]]
    /\ pass' = NoPass
    /\ UNCHANGED <<DryRun, stack, nextId, FollowChannel, followerVars, mergeVars>>

----------------------------------------------------------------------------
(* StackFollower: Receiver *)

BeingFollowed(list, stackId) == stackId \in DOMAIN list

\* sync.Map Store and Delete
Store(list, k, v) == [x \in DOMAIN list \cup {k} |-> IF x = k THEN v ELSE list[x]]
Delete(list, k) == [x \in DOMAIN list \ {k} |-> list[x]]

\* the Receiver following whatever it is handed
shouldFollowAlways(list, stackId) == TRUE

\* the Receiver's test before startFollowing
shouldFollow(list, stackId) == ~BeingFollowed(list, stackId)

ReceiverRecv ==
    /\ rpc = "recv" /\ FollowChannel # <<>>
    /\ StacksFollowed < MaxFollowed
    /\ LET toBeFollowed == Head(FollowChannel) IN
       IF shouldFollow(mapPollingList, toBeFollowed.StackID)
       THEN rpc' = "start" /\ rmsg' = toBeFollowed /\ pass' = NoPass
       ELSE /\ rpc' = "recv" /\ rmsg' = NoMsg
            /\ pass' = [NoPass EXCEPT !.kind = "ignored", !.res = toBeFollowed.res]
    /\ FollowChannel' = Tail(FollowChannel)
    /\ UNCHANGED <<DryRun, stack, cfn, nextId, mapPollingList, StacksFollowing,
                   StacksFollowed, wpc, wtodo, wkey, wstack, wcfs, wlast, admits,
                   mergeVars>>

\* startFollowing that leaves the total-followed counter alone
ReceiverStartUncounted ==
    /\ rpc = "start"
    /\ mapPollingList' = Store(mapPollingList, rmsg.StackID, rmsg.res)
    /\ admits' = [admits EXCEPT ![rmsg.StackID] = @ + 1]
    /\ StacksFollowed' = StacksFollowed
    /\ StacksFollowing' = StacksFollowing + 1
    /\ rpc' = "recv" /\ rmsg' = NoMsg
    /\ pass' = NoPass
    /\ UNCHANGED <<DryRun, stack, cfn, nextId, FollowChannel, wpc, wtodo, wkey,
                   wstack, wcfs, wlast, mergeVars>>

\* startFollowing
ReceiverStart ==
    /\ rpc = "start"
    /\ mapPollingList' = Store(mapPollingList, rmsg.StackID, rmsg.res)
    /\ admits' = [admits EXCEPT ![rmsg.StackID] = @ + 1]
    /\ StacksFollowed' = StacksFollowed + 1
    /\ StacksFollowing' = StacksFollowing + 1
    /\ rpc' = "recv" /\ rmsg' = NoMsg
    /\ pass' = NoPass
    /\ UNCHANGED <<DryRun, stack, cfn, nextId, FollowChannel, wpc, wtodo, wkey,
                   wstack, wcfs, wlast, mergeVars>>

----------------------------------------------------------------------------
(* StackFollower: Worker and processStack *)

\* the test that takes only a deleted stack for finished
stopsAfterDelete(err, status) == ~err /\ status = "DELETE_COMPLETE"

\* the test that unregisters a finished stack whether or not the merge failed
stopsWhenTerminal(err, status) == StackInTerminalState(status)

\* processStack's test after the merge
stopsAfterMerge(err, status) == ~err /\ StackInTerminalState(status)

\* stopFollowing that leaves the gauge alone
stopFollowingNoDec(k) ==
    /\ mapPollingList' = Delete(mapPollingList, k)
    /\ StacksFollowing' = StacksFollowing
    /\ admits' = [admits EXCEPT ![k] = 0]
    /\ wpc' = "range"

stopFollowing(k) ==
    /\ mapPollingList' = Delete(mapPollingList, k)
    /\ StacksFollowing' = StacksFollowing - 1
    /\ admits' = [admits EXCEPT ![k] = 0]
    /\ wpc' = "range"

keepFollowing ==
    /\ wpc' = "range"
    /\ UNCHANGED <<mapPollingList, StacksFollowing, admits>>

WorkerTick ==
    /\ wpc = "sleep"
    /\ wpc' = "range"
    /\ wtodo' = DOMAIN mapPollingList
    /\ pass' = NoPass
    /\ UNCHANGED <<DryRun, stack, cfn, nextId, FollowChannel, mapPollingList,
                   StacksFollowing, StacksFollowed, rpc, rmsg, wkey, wstack, wcfs,
                   wlast, admits, mergeVars>>

\* processStack up to the fetch of the remote stack
WorkerFetchWith(gets, outs) ==
    /\ wpc = "range"
    /\ \E k \in wtodo, get \in gets, out \in outs :
         LET r == mapPollingList[k]
             g == GetStack(cfn[r], out)
         IN  /\ wtodo' = wtodo \ {k}
             /\ IF get = "error"
                THEN /\ keepFollowing
                     /\ wlast' = [NoWork EXCEPT !.kind = "fetch", !.key = k, !.err = TRUE]
                     /\ UNCHANGED <<wkey, wstack, wcfs>>
                ELSE IF ~stack[r].exists
                THEN /\ stopFollowing(k)
                     /\ wlast' = [NoWork EXCEPT !.kind = "gone", !.key = k]
                     /\ UNCHANGED <<wkey, wstack, wcfs>>
                ELSE IF g.err = ErrStackNotFound
                THEN /\ stopFollowing(k)
                     /\ wlast' = [NoWork EXCEPT !.kind = "notfound", !.key = k]
                     /\ UNCHANGED <<wkey, wstack, wcfs>>
                ELSE IF g.err # ""
                THEN /\ keepFollowing
                     /\ wlast' = [NoWork EXCEPT !.kind = "fetch", !.key = k, !.err = TRUE]
                     /\ UNCHANGED <<wkey, wstack, wcfs>>
                ELSE /\ wpc' = "merge"
                     /\ wkey' = k /\ wstack' = stack[r] /\ wcfs' = g.stack
                     /\ wlast' = [NoWork EXCEPT !.kind = "fetched", !.key = k]
                     /\ UNCHANGED <<mapPollingList, StacksFollowing, admits>>
    /\ pass' = NoPass
    /\ UNCHANGED <<DryRun, stack, cfn, nextId, FollowChannel, StacksFollowed,
                   rpc, rmsg, mergeVars>>

WorkerFetch == WorkerFetchWith({"ok", "error"}, {"ok", "lookup-error"})

\* processStack from updateStackStatus on
WorkerMergeWith(ios) ==
    /\ wpc = "merge"
    /\ \E io \in ios :
         LET r == mapPollingList[wkey]
             res == IF cfn[r].StackId = wcfs.StackId
                    THEN GetStackResources(cfn[r]) ELSE GetStackResources(wcfs)
             m == updateStackStatus(wstack.Status, wcfs, res, io)
         IN  /\ io = "ok" => stack[r] = wstack
             /\ io = "notfound" => ~stack[r].exists
             /\ stack' = IF m.stored THEN [stack EXCEPT ![r].Status = m.instance]
                         ELSE stack
             /\ IF stopsAfterMerge(m.err, wcfs.StackStatus)
                THEN stopFollowing(wkey)
                ELSE keepFollowing
             /\ wlast' = [kind |-> "merge", key |-> wkey,
                          terminal |-> StackInTerminalState(wcfs.StackStatus),
                          err |-> m.err, wrote |-> m.wrote]
    /\ wkey' = 0 /\ wstack' = GoneStack /\ wcfs' = NoStack
    /\ pass' = NoPass
    /\ UNCHANGED <<DryRun, cfn, nextId, FollowChannel, StacksFollowed, rpc, rmsg,
                   wtodo, mergeVars>>

WorkerMerge == WorkerMergeWith(MergeOutcomes)

\* Range has visited every entry: back to sleep
WorkerEndTick ==
    /\ wpc = "range" /\ wtodo = {}
    /\ wpc' = "sleep"
    /\ wlast' = NoWork
    /\ pass' = NoPass
    /\ UNCHANGED <<DryRun, stack, cfn, nextId, FollowChannel, mapPollingList,
                   StacksFollowing, StacksFollowed, rpc, rmsg, wtodo, wkey, wstack,
                   wcfs, admits, mergeVars>>

----------------------------------------------------------------------------
(* Specification of the controller *)

Next ==
    \/ \E r \in Resources : Reconcile(r)
    \/ \E r \in Resources : ReconcileNotFound(r)
    \/ \E r \in Resources : UserDelete(r)
    \/ \E r \in Resources : RemoteProgress(r)
    \/ \E r \in Resources : RemoteVanish(r)
    \/ \E r \in Resources : ExternalUntag(r)
    \/ ReceiverRecv
    \/ ReceiverStart
    \/ WorkerTick
    \/ WorkerFetch
    \/ WorkerMerge
    \/ WorkerEndTick

Spec == Init /\ [][Next]_vars

----------------------------------------------------------------------------
(* The controller without failures: every remote call and every write        *)
(* succeeds (a status write against a resource changed since it was fetched  *)
(* is still refused), and UpdateStack finds something to update only as long *)
(* as the stack has not been updated yet.                                    *)

UpdateAnswers(r) ==
    IF cfn[r].LastUpdatedTime = 0 THEN {"ok", "noupdates"} ELSE {"noupdates"}

ReconcileOk(r) == ReconcileWith(r, UpdateAnswers(r), {"ok"})

WorkerFetchOk == WorkerFetchWith({"ok"}, {"ok"})

WorkerMergeOk ==
    /\ wpc = "merge"
    /\ LET r == mapPollingList[wkey] IN
       WorkerMergeWith(IF stack[r].exists /\ stack[r] # wstack
                       THEN {"error"} ELSE {"ok", "notfound"})

NextOk ==
    \/ \E r \in Resources : ReconcileOk(r)
    \/ \E r \in Resources : ReconcileNotFound(r)
    \/ \E r \in Resources : UserDelete(r)
    \/ \E r \in Resources : RemoteProgress(r)
    \/ \E r \in Resources : RemoteVanish(r)
    \/ \E r \in Resources : ExternalUntag(r)
    \/ ReceiverRecv
    \/ ReceiverStart
    \/ WorkerTick
    \/ WorkerFetchOk
    \/ WorkerMergeOk
    \/ WorkerEndTick

\* the Receiver and the Worker goroutines keep running, and the remote
\* service finishes what it has started
FollowerFairness ==
    /\ WF_vars(ReceiverRecv) /\ WF_vars(ReceiverStart)
    /\ WF_vars(WorkerTick) /\ WF_vars(WorkerFetchOk)
    /\ WF_vars(WorkerMergeOk) /\ WF_vars(WorkerEndTick)
    /\ \A r \in Resources : WF_vars(RemoteProgress(r))

\* Reconcile is run again as long as a pass has something left to do
ReconcileFairness == \A r \in Resources : WF_vars(ReconcileOk(r))

FollowSpec == Init /\ [][NextOk]_vars /\ FollowerFairness

DeleteSpec == Init /\ [][NextOk]_vars /\ FollowerFairness /\ ReconcileFairness

----------------------------------------------------------------------------
(* The status merge on its own: a stored status that an earlier merge wrote   *)
(* (or that was never written) is merged with a remote stack, MaxMergeRuns    *)
(* times in a row.                                                            *)

OutputLists ==
    UNION {[1..n -> [OutputKey : {"k"}, OutputValue : {"a", "b"}]] : n \in 0..MaxOutputs}

MergeStacks ==
    {[StackId |-> id, StackStatus |-> st, CreationTime |-> id,
      LastUpdatedTime |-> IF st = "UPDATE_IN_PROGRESS" THEN 1 ELSE 0,
      Outputs |-> outs, Tags |-> {<<controllerKey, controllerValue>>},
      RoleARN |-> role, Resources |-> res] :
        id \in 1..(MaxStackId + 1), st \in {"CREATE_COMPLETE", "UPDATE_IN_PROGRESS"},
        outs \in OutputLists, role \in {"", "arn:aws:iam::role/deployer"},
        res \in {<<>>, <<"res">>}}

StoredStatuses ==
    {EmptyStatus} \cup
    {updateStackStatus(EmptyStatus, c, GetStackResources(c), "ok").instance :
        c \in MergeStacks}

MergeInit ==
    /\ DryRun = FALSE
    /\ stack = [r \in Resources |-> NewStack({}, TRUE, FALSE)]
    /\ cfn = [r \in Resources |-> NoStack] /\ nextId = 1
    /\ FollowChannel = <<>>
    /\ mapPollingList = <<>>
    /\ StacksFollowing = 0 /\ StacksFollowed = 0
    /\ rpc = "recv" /\ rmsg = NoMsg
    /\ wpc = "sleep" /\ wtodo = {} /\ wkey = 0 /\ wstack = GoneStack /\ wcfs = NoStack
    /\ wlast = NoWork
    /\ admits = [k \in StackIds |-> 0]
    /\ pass = NoPass
    /\ mInst \in StoredStatuses /\ mCfs \in MergeStacks
    /\ mPre = mInst /\ mWrote = 0 /\ mIo = "ok" /\ mRuns = 0

\* one run of updateStackStatus against the remote stack; what it persists is
\* what the next run finds stored
MergeRun ==
    /\ mRuns < MaxMergeRuns
    /\ \E io \in MergeOutcomes :
         LET m == updateStackStatus(mInst, mCfs, GetStackResources(mCfs), io) IN
         /\ mPre' = mInst
         /\ mInst' = IF m.stored THEN m.instance ELSE mInst
         /\ mWrote' = IF m.wrote THEN 1 ELSE 0
         /\ mIo' = io
    /\ mRuns' = mRuns + 1
    /\ UNCHANGED <<mCfs, DryRun, stack, cfn, nextId, FollowChannel, followerVars, pass>>

MergeSpec == MergeInit /\ [][MergeRun]_vars

----------------------------------------------------------------------------
(* Properties of the status merge (checked under MergeSpec) *)

\* the outputs of the remote stack as a map
RemoteOutputs(cfs) == BuildOutputs(MakeMap({}), cfs.Outputs)

\* the tracked fields in which the stored status st differs from the remote stack
DifferingFields(st, cfs) ==
    {f \in {"StackStatus", "StackID", "Outputs", "RoleARN", "Resources"} :
        CASE f = "StackStatus" -> st.StackStatus # cfs.StackStatus
          [] f = "StackID" -> st.StackID # cfs.StackId
          [] f = "Outputs" -> st.Outputs.kv # RemoteOutputs(cfs).kv
          [] f = "RoleARN" -> st.RoleARN # cfs.RoleARN
          [] f = "Resources" -> st.Resources # cfs.Resources}

\* a merge has run and got the resource list of the stack
MergeRan == mRuns > 0 /\ mIo # "resources-error"

\* C5: when the remote stack equals the stored status in lifecycle status,
\* identifier, outputs, role ARN and resource list (a stored output map that
\* was never set counting as equal to no outputs), the merge issues no
\* persistence call.
C5_MergeNoopWhenUnchanged ==
    (MergeRan /\ DifferingFields(mPre, mCfs) = {}) => mWrote = 0

\* C6: when exactly one of the five tracked fields differs, the merge issues
\* exactly one persistence call.
C6_MergePersistsEachChange ==
    (MergeRan /\ Cardinality(DifferingFields(mPre, mCfs)) = 1) => mWrote = 1

----------------------------------------------------------------------------
(* Properties of the controller (checked under Spec) *)

\* the remote stack of r is there (not absent, not fully deleted)
RemoteExists(status) == status \notin {"NONE", "DELETE_COMPLETE"}

\* the last step was a Reconcile pass
Reconciled == pass.kind = "reconcile"

\* C1: a deletion-marked resource loses its finalizers (and so is removed) only
\* if its remote stack was never created, is fully deleted or is not owned: no
\* resource is gone while an owned remote stack created for it still exists.
C1_FinalizersDroppedOnlyWhenStackGone ==
    \A r \in Resources :
        ~stack[r].exists =>
            ~(/\ RemoteExists(cfn[r].StackStatus)
              /\ Owned(cfn[r])
              /\ <<ownerKey, r>> \in cfn[r].Tags)

\* C2: after a Reconcile pass that succeeded and changed neither the remote
\* stack nor the resource, a second pass run at once issues no remote call and
\* no status write, whatever the remote API answers.
C2_ReconcileIdempotent ==
    \A r \in Resources :
        (/\ Reconciled /\ pass.res = r /\ stack[r].exists
         /\ pass.err = "" /\ ~pass.remoteChanged /\ ~pass.objWrite)
        => \A out \in Outcomes, io \in {"ok", "error"} :
              LET second == ReconcilePass(stack[r], cfn[r], DryRun, r, nextId, out, io)
              IN  second.calls = {} /\ ~second.statusWrite

\* the Receiver takes a handoff off the channel
ReceiverRecvStep == FollowChannel # <<>> /\ FollowChannel' = Tail(FollowChannel)

\* C3: every registered identifier was stored exactly once since it was last
\* unregistered (so the admit step ran once for this registration), and a
\* handoff for a registered identifier changes neither registry nor counters.
C3_AtMostOneFollowerPerId ==
    /\ [](\A k \in StackIds :
            admits[k] = IF k \in DOMAIN mapPollingList THEN 1 ELSE 0)
    /\ [][(ReceiverRecvStep /\ Head(FollowChannel).StackID \in DOMAIN mapPollingList)
            => (rpc' = "recv" /\ UNCHANGED <<mapPollingList, StacksFollowing,
                                             StacksFollowed, admits>>)]_vars

\* a handoff for a registered identifier has just been ignored
C3_Witness ==
    /\ pass.kind = "ignored"
    /\ \E k \in DOMAIN mapPollingList : admits[k] = 1 /\ StacksFollowing = 1

\* the Worker finishes processing the entry wkey
WorkerMergeStep == wpc = "merge" /\ wpc' = "range"

TemplateLogic == Reconciled /\ pass.logic \in {"create", "update"} /\ ~pass.dry

DeleteLogic == Reconciled /\ pass.logic = "delete" /\ ~pass.dry

\* C8: delete logic that finds the remote stack existing without the ownership
\* tag returns success with no DeleteStack call and no handoff; DeleteStack is
\* issued only by delete logic whose ownership check answered true (the stack
\* carries the tag, or is not there).
C8_NoDeleteWithoutOwnership ==
    /\ (DeleteLogic /\ pass.lookup = "found" /\ RemoteExists(pass.remoteStatus)
         /\ ~pass.remoteOwned)
          => (/\ pass.err = "" /\ pass.calls = {} /\ ~pass.handoff
              /\ ~pass.remoteChanged)
    /\ (Reconciled /\ "DeleteStack" \in pass.calls)
          => (/\ DeleteLogic /\ pass.lookup # "error"
              /\ (pass.remoteOwned \/ ~RemoteExists(pass.remoteStatus)))

\* delete logic has just left an unowned stack alone
C8_Witness ==
    /\ DeleteLogic /\ pass.lookup = "found" /\ RemoteExists(pass.remoteStatus)
    /\ ~pass.remoteOwned /\ pass.err = "" /\ pass.calls = {}

\* C9: a pass over a resource not marked for deletion that carries the
\* finalizer and finds its remote stack existing, owned and not terminal hands
\* the resource to the follower and issues neither CreateStack nor UpdateStack;
\* so neither is ever issued against an owned stack seen in progress.
C9_NoMutationWhileInProgress ==
    (/\ Reconciled /\ ~pass.deleting /\ stacksFinalizer \in pass.finalizers
     /\ pass.lookup = "found" /\ RemoteExists(pass.remoteStatus)
     /\ pass.remoteOwned /\ ~StackInTerminalState(pass.remoteStatus))
    => (/\ pass.logic = "follow" /\ pass.handoff /\ pass.calls = {}
        /\ pass.err = "" /\ ~pass.remoteChanged /\ ~pass.statusWrite)

\* a pass has just handed a stack in progress to the follower
C9_Witness ==
    /\ Reconciled /\ pass.logic = "follow" /\ pass.handoff
    /\ pass.remoteStatus = "UPDATE_IN_PROGRESS" /\ pass.remoteOwned
    /\ FollowChannel # <<>>

\* C10: a pass over a resource not marked for deletion and without the
\* finalizer only writes the resource with the finalizer added (no remote call,
\* no handoff, no status write), and every CreateStack, UpdateStack or
\* DeleteStack is issued by a pass whose fetched resource carried a finalizer
\* (the current one for CreateStack and UpdateStack).
C10_FinalizerBeforeRemoteMutation ==
    /\ (Reconciled /\ pass.res \in Resources /\ stack[pass.res].exists
         /\ ~pass.deleting /\ stacksFinalizer \notin pass.finalizers)
          => (/\ pass.logic = "finalizer" /\ pass.objWrite
              /\ pass.calls = {} /\ ~pass.handoff /\ ~pass.statusWrite
              /\ ~pass.remoteChanged
              /\ (pass.err = "" => stacksFinalizer \in stack[pass.res].finalizers))
    /\ (Reconciled /\ pass.calls # {})
          => (/\ pass.finalizers \cap {stacksFinalizer, legacyFinalizer} # {}
              /\ (pass.calls \cap {"CreateStack", "UpdateStack"} # {}
                    => stacksFinalizer \in pass.finalizers))

\* a pass has just added the finalizer to a resource that had none
C10_Witness ==
    /\ Reconciled /\ pass.logic = "finalizer" /\ ~pass.deleting
    /\ pass.finalizers = {} /\ pass.err = ""
    /\ stack[pass.res].finalizers = {stacksFinalizer}

\* the last step was a pass over a deletion-marked resource that carries a finalizer
DeletionPass ==
    /\ Reconciled /\ pass.deleting
    /\ pass.finalizers \cap {stacksFinalizer, legacyFinalizer} # {}

\* C11: a pass over a deletion-marked resource whose remote stack is already
\* in DELETE_COMPLETE removes the finalizers in that pass (unless the write of
\* the resource fails) and issues no DeleteStack call, whatever lifecycle
\* status is stored in the resource.
C11_DeletedStackFinalizedAtOnce ==
    (DeletionPass /\ pass.remoteStatus = "DELETE_COMPLETE")
    => (/\ "DeleteStack" \notin pass.calls
        /\ pass.logic = "finalizer"
        /\ (pass.err = "" => pass.finalized))

\* the remote UpdateStack call of the last pass reported nothing to update
NoUpdatesReported == Reconciled /\ pass.apiErr = ErrNoUpdates

\* C12: when UpdateStack reports that there are no updates to perform, update
\* logic runs the status refresh in the same pass, makes no handoff and no
\* other remote call, and returns the refresh's error if it has one and success
\* otherwise (the stored lifecycle status then being the remote one); the
\* refresh is run by no other pass.
C12_NoUpdatesRefreshesStatus ==
    /\ NoUpdatesReported
          => (/\ pass.logic = "update" /\ pass.refresh /\ ~pass.handoff
              /\ pass.calls = {"UpdateStack"} /\ ~pass.remoteChanged
              /\ pass.err \in {"", ErrPersist}
              /\ (pass.err = ErrPersist => pass.statusWrite)
              /\ (pass.err = "" /\ stack[pass.res].exists)
                    => stack[pass.res].Status.StackStatus = pass.remoteStatus)
    /\ (Reconciled /\ pass.refresh) => pass.apiErr = ErrNoUpdates

\* a pass has just refreshed a stale status after UpdateStack had nothing to do
C12_Witness ==
    /\ NoUpdatesReported /\ pass.refresh /\ pass.statusWrite /\ pass.err = ""
    /\ pass.storedStatus # pass.remoteStatus
    /\ stack[pass.res].Status.StackStatus = pass.remoteStatus

\* the Worker takes an entry of this tick and processes it up to the lookup
WorkerFetchStep == wpc = "range" /\ wtodo' # wtodo

\* the entry a WorkerFetchStep processes
FetchedKey == CHOOSE k \in wtodo : k \notin wtodo'

\* the resource of r is gone, or its remote stack is not found
Vanished(r) == ~stack[r].exists \/ cfn[r].StackStatus = "NONE"

\* C13: when a poll tick processes an entry whose resource no longer exists or
\* whose remote lookup reports not found, the entry (and only it) is removed
\* from the registry, the gauge goes down by exactly one, nothing is written,
\* no error is recorded and the tick goes on with the entries that remain; and
\* unless the fetch fails otherwise, that is what happens to every such entry.
C13_VanishedTargetUnfollowed ==
    [][WorkerFetchStep =>
         LET k == FetchedKey
             r == mapPollingList[k]
         IN  /\ wlast'.kind \in {"gone", "notfound"}
                   => (/\ Vanished(r)
                       /\ DOMAIN mapPollingList' = DOMAIN mapPollingList \ {k}
                       /\ k \in DOMAIN mapPollingList
                       /\ StacksFollowing' = StacksFollowing - 1
                       /\ StacksFollowed' = StacksFollowed
                       /\ stack' = stack /\ cfn' = cfn
                       /\ ~wlast'.err /\ ~wlast'.wrote
                       /\ wpc' = "range" /\ wtodo' = wtodo \ {k})
             /\ (Vanished(r) /\ ~wlast'.err)
                   => wlast'.kind \in {"gone", "notfound"}]_vars

\* an entry whose target vanished has just been removed, and the tick has
\* another entry left to process
C13_Witness ==
    /\ wlast.kind \in {"gone", "notfound"}
    /\ wlast.key \notin DOMAIN mapPollingList
    /\ wpc = "range" /\ wtodo # {} /\ wtodo \subseteq DOMAIN mapPollingList
    /\ StacksFollowing = Cardinality(DOMAIN mapPollingList)

\* C14: an entry whose resource fetch, remote lookup or status merge fails with
\* an error other than not-found stays in the registry, terminal or not, and
\* the registry and gauge are left as they were; the tick goes on with the
\* entries that remain and ends only when each has been processed, and the
\* next tick takes every registered entry, the failed one included.
C14_EntryErrorsContained ==
    /\ [][(WorkerFetchStep /\ wlast'.err)
            => (/\ mapPollingList' = mapPollingList
                /\ FetchedKey \in DOMAIN mapPollingList'
                /\ StacksFollowing' = StacksFollowing
                /\ wpc' = "range" /\ wtodo' = wtodo \ {FetchedKey})]_vars
    /\ [][(WorkerMergeStep /\ wlast'.err)
            => (/\ mapPollingList' = mapPollingList
                /\ wkey \in DOMAIN mapPollingList'
                /\ StacksFollowing' = StacksFollowing
                /\ wpc' = "range" /\ wtodo' = wtodo)]_vars
    /\ [][(wpc = "sleep" /\ wpc' = "range") => wtodo' = DOMAIN mapPollingList]_vars
    /\ [][(wpc = "range" /\ wpc' = "sleep") => wtodo = {}]_vars

\* the merge of a terminal entry has just failed: the entry is still
\* registered and the tick has another entry left to process
C14_Witness ==
    /\ wlast.kind = "merge" /\ wlast.err /\ wlast.terminal
    /\ wlast.key \in DOMAIN mapPollingList
    /\ wpc = "range" /\ wtodo # {}

\* C15: a stored stack identifier that is not empty stays not empty in every
\* step (a Reconcile pass, a follower merge or any other) that leaves the
\* resource in existence; it may be replaced by another identifier.
C15_StackIdNeverCleared ==
    [][\A r \in Resources :
         (stack[r].exists /\ stack[r].Status.StackID # 0 /\ stack'[r].exists)
            => stack'[r].Status.StackID # 0]_vars

\* the follower has merged the status of the deleted stack into a resource
\* whose identifier had been stored before
C15_Witness ==
    \E r \in Resources :
        /\ stack[r].exists /\ stack[r].Status.StackID # 0
        /\ stack[r].Status.StackStatus = "DELETE_COMPLETE"
        /\ wlast.kind = "merge" /\ wlast.wrote /\ ~wlast.err

\* the last step was a pass through create, update or delete logic in dry-run mode
DryLogic == Reconciled /\ pass.dry /\ pass.logic \in {"create", "update", "delete"}

\* C16: in dry-run mode create, update and delete logic return success without
\* a remote call, a handoff, a status write or a write of the resource, and
\* leave resource and remote stack as they were; no pass of a dry-run
\* controller issues CreateStack, UpdateStack or DeleteStack.
C16_DryRunDoesNothing ==
    /\ DryLogic
          => (/\ pass.err = "" /\ pass.calls = {} /\ ~pass.handoff
              /\ ~pass.statusWrite /\ ~pass.objWrite /\ ~pass.refresh
              /\ ~pass.remoteChanged /\ ~pass.finalized
              /\ stack[pass.res].exists
              /\ stack[pass.res].finalizers = pass.finalizers
              /\ stack[pass.res].Status.StackStatus = pass.storedStatus)
    /\ (Reconciled /\ DryRun) => (pass.calls = {} /\ ~pass.remoteChanged)

\* delete logic has just been skipped in dry-run mode for an owned stack
C16_Witness ==
    /\ DryLogic /\ pass.logic = "delete" /\ pass.deleting
    /\ pass.remoteOwned /\ pass.remoteStatus = "CREATE_COMPLETE"
    /\ FollowChannel = <<>>

\* the last step was a pass over a resource not marked for deletion that
\* carries the finalizer, and its lookup of the remote stack did not fail
ConvergePass ==
    /\ Reconciled /\ pass.res \in Resources /\ ~pass.deleting
    /\ stacksFinalizer \in pass.finalizers /\ pass.lookup # "error"

\* C17: such a pass runs create logic and issues no UpdateStack when the remote
\* stack does not exist (not found or DELETE_COMPLETE) or exists without the
\* ownership tag, the CreateStack call being issued unless the pass is a dry
\* run or the template is missing; UpdateStack is issued only by a pass that
\* found the stack existing, owned and terminal.
C17_UnownedOrAbsentGoesToCreate ==
    /\ (ConvergePass /\ (~RemoteExists(pass.remoteStatus) \/ ~pass.remoteOwned))
          => (/\ pass.logic = "create"
              /\ "UpdateStack" \notin pass.calls
              /\ (~pass.dry /\ (pass.Template \/ pass.TemplateUrl))
                    => pass.calls = {"CreateStack"})
    /\ (Reconciled /\ "UpdateStack" \in pass.calls)
          => (/\ ConvergePass /\ pass.logic = "update" /\ pass.lookup = "found"
              /\ RemoteExists(pass.remoteStatus) /\ pass.remoteOwned
              /\ StackInTerminalState(pass.remoteStatus))

\* create logic has just been run against a stack that exists without the
\* ownership tag
C17_Witness ==
    /\ ConvergePass /\ pass.lookup = "found" /\ RemoteExists(pass.remoteStatus)
    /\ ~pass.remoteOwned /\ pass.logic = "create" /\ pass.calls = {"CreateStack"}

\* the step adds an entry to the registry
AdmitStep ==
    \E k \in StackIds :
        /\ k \notin DOMAIN mapPollingList
        /\ DOMAIN mapPollingList' = DOMAIN mapPollingList \cup {k}

\* the step removes an entry from the registry
UnregisterStep ==
    \E k \in DOMAIN mapPollingList :
        DOMAIN mapPollingList' = DOMAIN mapPollingList \ {k}

\* C20: between the steps of Receiver and Worker the gauge equals the number
\* of registry entries and is never negative; the total-followed counter never
\* decreases and goes up by one in exactly the steps that admit an entry (so it
\* counts the admits), and the gauge goes down by one in exactly the steps that
\* unregister one.
C20_GaugeMatchesRegistry ==
    /\ [](/\ StacksFollowing = Cardinality(DOMAIN mapPollingList)
          /\ StacksFollowing >= 0
          /\ StacksFollowed >= StacksFollowing)
    /\ [][/\ StacksFollowed' >= StacksFollowed
          /\ StacksFollowed' = StacksFollowed + (IF AdmitStep THEN 1 ELSE 0)
          /\ StacksFollowing' = StacksFollowing + (IF AdmitStep THEN 1 ELSE 0)
                                                - (IF UnregisterStep THEN 1 ELSE 0)
          /\ (AdmitStep \/ UnregisterStep
                \/ DOMAIN mapPollingList' = DOMAIN mapPollingList)]_vars

\* two entries have been admitted and one of them unregistered
C20_Witness ==
    /\ StacksFollowed = 2 /\ StacksFollowing = 1
    /\ Cardinality(DOMAIN mapPollingList) = 1
    /\ rpc = "recv" /\ wlast.kind = "merge"

\* C21: the registry never holds two entries under different keys for the
\* same resource, so that a tick polls a resource at most once; also when the
\* resource was handed off before its identifier was stored and again after.
C21_OneEntryPerResource ==
    \A k1, k2 \in DOMAIN mapPollingList :
        mapPollingList[k1] = mapPollingList[k2] => k1 = k2

----------------------------------------------------------------------------
(* Progress of the controller (checked under FollowSpec and DeleteSpec) *)

\* the last step was a pass that issued CreateStack, UpdateStack or DeleteStack
\* with success and handed the resource r to the follower
HandedOff(r) ==
    /\ Reconciled /\ pass.res = r /\ pass.calls # {} /\ pass.err = ""
    /\ pass.handoff

\* the stored status of r is the terminal status of its remote stack (or the
\* resource or the remote stack is gone, or the follower has admitted MaxFollowed
\* entries)
TrackedToEnd(r) ==
    \/ ~stack[r].exists
    \/ cfn[r].StackStatus = "NONE"
    \/ StacksFollowed = MaxFollowed
    \/ /\ StackInTerminalState(cfn[r].StackStatus)
       /\ stack[r].Status.StackStatus = cfn[r].StackStatus

\* C18: with Receiver and Worker running and no failures, a resource handed
\* off after a successful CreateStack, UpdateStack or DeleteStack eventually
\* has the terminal status of its remote stack stored, also when the handoff
\* was ignored because the identifier was still registered.
C18_HandoffTrackedToTerminal ==
    \A r \in Resources : HandedOff(r) ~> TrackedToEnd(r)

\* C19: with Reconcile, Receiver and Worker running and no failures, a
\* deletion-marked resource of a controller not in dry-run mode is eventually
\* removed (its finalizers dropped), whether its remote stack is owned or not.
C19_DeletionCompletes ==
    \A r \in Resources :
        (stack[r].exists /\ stack[r].deleting /\ ~DryRun)
            ~> (~stack[r].exists \/ StacksFollowed = MaxFollowed)

====
